---------------------------- MODULE Spec2Model ----------------------------
(***************************************************************************)
(* Model of src/src/main.rs: the SlotMap arena (slots, item_count, the     *)
(* empty_indexes bitmap) and the binary search Tree stored in it.          *)
(*                                                                         *)
(* Representation.                                                         *)
(*   Option<T>   None is <<>>, Some(x) is <<x>>.                           *)
(*   SlotKey     its index field, a natural number (0-based as in Rust).   *)
(*   Slot<T>     its item field, an Option<T>.                             *)
(*   Vec<X>      a sequence; Rust index i is TLA+ index i + 1.             *)
(*   u64         a function from bit numbers 0..BITS-1 (0 is the least     *)
(*               significant bit) to {0, 1}.                               *)
(*   usize       an integer standing for its residue modulo 2^64: a        *)
(*               negative integer -d stands for 2^64 - d, the value a      *)
(*               wrapping subtraction produces.                            *)
(*   panic       a fatal failure; the variable failure holds the message   *)
(*               and no operation runs afterwards.                         *)
(***************************************************************************)
EXTENDS Integers, Sequences, FiniteSets, TLC

\* u64::BITS, the width of one word of empty_indexes.
BITS == 64

\* ---- bounds of the model ----
\* Values handed to the Tree are 1..MaxVal.
MaxVal == 5
\* Tree::insert_ordered is not called once the arena holds MaxNodes slots.
MaxNodes == 4
\* Number of SlotMap calls made after the initial fill.
MaxOps == 8
\* SlotMap::remove is called with keys whose offset in their word is < NearKeys.
NearKeys == 2
\* SlotMap::remove is called with keys of the words 0..MaxChunk-1.
MaxChunk == 2

None == <<>>
Some(x) == <<x>>
IsSome(o) == o # None
Unwrap(o) == o[1]

NoFailure == "none"

Range(seq) == {seq[i] : i \in 1 .. Len(seq)}

Max(S) == CHOOSE x \in S : \A y \in S : y <= x

\* ------------------------------------------------------------------------
\* usize arithmetic
\* ------------------------------------------------------------------------

\* a < b on usize: a negative representative is a value near 2^64.
UsizeLt(a, b) ==
    IF a < 0 /\ b >= 0 THEN FALSE
    ELSE IF a >= 0 /\ b < 0 THEN TRUE
    ELSE a < b

\* a - b overflows usize (a panic when overflow checks are on).
UsizeSubOverflows(a, b) == UsizeLt(a, b)

\* ------------------------------------------------------------------------
\* u64 words of the bitmap
\* ------------------------------------------------------------------------

BitNumbers == 0 .. (BITS - 1)

\* u64::MAX
U64_MAX == [b \in BitNumbers |-> 1]

\* u64::leading_ones: the number of 1 bits above the most significant 0 bit.
LeadingOnes(w) ==
    LET zeros == {b \in BitNumbers : w[b] = 0}
    IN  IF zeros = {} THEN BITS ELSE BITS - 1 - Max(zeros)

\* w & !(1 << bit_offset)
UnsetBit(w, bit_offset) == [w EXCEPT ![bit_offset] = 0]

\* ------------------------------------------------------------------------
\* Slot
\* ------------------------------------------------------------------------

SlotNew(item) == Some(item)
SlotSet(slot, item) == Some(item)
\* Slot::clear returns the old item; the slot becomes None.
SlotClear(slot) == None

\* ------------------------------------------------------------------------
\* SlotMap
\* ------------------------------------------------------------------------

SlotMapNew == [slots |-> <<>>, item_count |-> 0, empty_indexes |-> <<>>]

\* The first chunk, in index order, with a 0 bit decides.
RECURSIVE FindFrom(_, _)
FindFrom(empty_indexes, chunk_index) ==
    IF chunk_index >= Len(empty_indexes) THEN None
    ELSE LET free_slot == LeadingOnes(empty_indexes[chunk_index + 1])
         IN  IF free_slot >= BITS
             THEN FindFrom(empty_indexes, chunk_index + 1)
             ELSE Some((chunk_index * BITS) + free_slot)

find_free_slot(m) == FindFrom(m.empty_indexes, 0)

\* Mutant of SlotMapInsert: the branch that appends a slot does not count
\* the item.
SlotMapInsertNoCount(m, item) ==
    IF UsizeLt(m.item_count, Len(m.slots))
    THEN LET free == find_free_slot(m)
         IN  IF free = None
             THEN [m |-> m, key |-> None,
                   failure |-> "There must be a free slot, otherwise we are keeping item_count out of sync"]
             ELSE IF Unwrap(free) >= Len(m.slots)
             THEN [m |-> m, key |-> None, failure |-> "index out of bounds"]
             ELSE [m |-> [m EXCEPT
                            !.slots[Unwrap(free) + 1] = SlotSet(@, item),
                            !.item_count = @ + 1],
                   key |-> free, failure |-> NoFailure]
    ELSE [m |-> [m EXCEPT !.slots = Append(@, SlotNew(item))],
          key |-> Some(Len(m.slots)), failure |-> NoFailure]

\* SlotMap::insert. The result is the map after the call, the key returned
\* and the panic message if the call failed.
SlotMapInsert(m, item) ==
    IF UsizeLt(m.item_count, Len(m.slots))
    THEN LET free == find_free_slot(m)
         IN  IF free = None
             THEN [m |-> m, key |-> None,
                   failure |-> "There must be a free slot, otherwise we are keeping item_count out of sync"]
             ELSE IF Unwrap(free) >= Len(m.slots)
             THEN [m |-> m, key |-> None, failure |-> "index out of bounds"]
             ELSE [m |-> [m EXCEPT
                            !.slots[Unwrap(free) + 1] = SlotSet(@, item),
                            !.item_count = @ + 1],
                   key |-> free, failure |-> NoFailure]
    ELSE [m |-> [m EXCEPT !.slots = Append(@, SlotNew(item)),
                          !.item_count = @ + 1],
          key |-> Some(Len(m.slots)), failure |-> NoFailure]

\* The loop of SlotMap::remove that appends u64::MAX words, entered with
\* (slot_chunk + 1) - empty_indexes.len() >= 0.
RECURSIVE ExtendChunks(_, _)
ExtendChunks(empty_indexes, slot_chunk) ==
    IF (slot_chunk + 1) - Len(empty_indexes) > 0
    THEN ExtendChunks(Append(empty_indexes, U64_MAX), slot_chunk)
    ELSE empty_indexes

\* index -> the number of the bit that stands for it in its word.
BitOffset(index) == BITS - 1 - (index % BITS)

\* SlotMap::remove. overflow_checks is the build's setting: with it an
\* overflowing subtraction panics, without it the subtraction wraps.
SlotMapRemove(m, slot_key, overflow_checks) ==
    IF slot_key >= Len(m.slots)
    THEN [m |-> m, item |-> None,
          failure |-> "Index should be in range as SlotMap never shrinks"]
    ELSE IF overflow_checks /\ UsizeSubOverflows(m.item_count, 1)
    THEN [m |-> m, item |-> None, failure |-> "attempt to subtract with overflow"]
    ELSE
    LET m1 == [m EXCEPT !.item_count = @ - 1]
        slot_chunk == slot_key \div BITS
    IN  IF UsizeSubOverflows(slot_chunk + 1, Len(m1.empty_indexes))
        THEN \* the loop condition underflows: a panic with overflow checks,
             \* otherwise the difference wraps to a value near 2^64 and the
             \* loop pushes words until the allocation fails.
             [m |-> m1, item |-> None,
              failure |-> IF overflow_checks
                          THEN "attempt to subtract with overflow"
                          ELSE "memory allocation failed"]
        ELSE
        LET extended == ExtendChunks(m1.empty_indexes, slot_chunk)
            m2 == [m1 EXCEPT !.empty_indexes =
                       [extended EXCEPT ![slot_chunk + 1] =
                            UnsetBit(@, BitOffset(slot_key))]]
            old == m.slots[slot_key + 1]
            m3 == [m2 EXCEPT !.slots[slot_key + 1] = SlotClear(@)]
        IN  IF old = None
            THEN [m |-> m3, item |-> None, failure |-> "Key exists so should data"]
            ELSE [m |-> m3, item |-> old, failure |-> NoFailure]

\* SlotMap::get (and get_mut, which differs only in the borrow it returns).
SlotMapGet(m, slot_key) ==
    IF slot_key >= Len(m.slots)
    THEN [item |-> None,
          failure |-> "Index should be in range as SlotMap never decreases in length"]
    ELSE IF m.slots[slot_key + 1] = None
    THEN [item |-> None, failure |-> "Should exist as key exists"]
    ELSE [item |-> m.slots[slot_key + 1], failure |-> NoFailure]


\* ------------------------------------------------------------------------
\* TreeNode and Tree
\* ------------------------------------------------------------------------

TreeNodeNew(data) == [data |-> data, left |-> None, right |-> None]

\* Tree::new
TreeNew(root) ==
    LET r == SlotMapInsert(SlotMapNew, TreeNodeNew(root))
    IN  [storage |-> r.m, root |-> Unwrap(r.key)]

\* Mutant of Descend: the equality test is missing, so a value equal to a
\* node's is sent to the right like a greater one.
RECURSIVE DescendNoEq(_, _, _)
DescendNoEq(t, current_key, data) ==
    LET g == SlotMapGet(t.storage, current_key)
    IN  IF g.failure # NoFailure
        THEN [kind |-> "panic", key |-> current_key, failure |-> g.failure]
        ELSE LET current_node == Unwrap(g.item)
             IN  IF data < current_node.data
                 THEN IF IsSome(current_node.left)
                      THEN DescendNoEq(t, Unwrap(current_node.left), data)
                      ELSE [kind |-> "left", key |-> current_key, failure |-> NoFailure]
                 ELSE IF IsSome(current_node.right)
                      THEN DescendNoEq(t, Unwrap(current_node.right), data)
                      ELSE [kind |-> "right", key |-> current_key, failure |-> NoFailure]

\* The descent loop shared by insert_ordered and contains, from current_key.
\* Result: "found" (data equals a node), "left" / "right" (data belongs in
\* the missing child of node key on that side), or the panic of get.
RECURSIVE Descend(_, _, _)
Descend(t, current_key, data) ==
    LET g == SlotMapGet(t.storage, current_key)
    IN  IF g.failure # NoFailure
        THEN [kind |-> "panic", key |-> current_key, failure |-> g.failure]
        ELSE LET current_node == Unwrap(g.item)
             IN  IF data = current_node.data
                 THEN [kind |-> "found", key |-> current_key, failure |-> NoFailure]
                 ELSE IF data < current_node.data
                 THEN IF IsSome(current_node.left)
                      THEN Descend(t, Unwrap(current_node.left), data)
                      ELSE [kind |-> "left", key |-> current_key, failure |-> NoFailure]
                 ELSE IF IsSome(current_node.right)
                      THEN Descend(t, Unwrap(current_node.right), data)
                      ELSE [kind |-> "right", key |-> current_key, failure |-> NoFailure]

\* As Descend, but a value greater than a node's is reported missing
\* without looking at the node's right child.
RECURSIVE DescendLeftOnly(_, _, _)
DescendLeftOnly(t, current_key, data) ==
    LET g == SlotMapGet(t.storage, current_key)
    IN  IF g.failure # NoFailure
        THEN [kind |-> "panic", key |-> current_key, failure |-> g.failure]
        ELSE LET current_node == Unwrap(g.item)
             IN  IF data = current_node.data
                 THEN [kind |-> "found", key |-> current_key, failure |-> NoFailure]
                 ELSE IF data < current_node.data /\ IsSome(current_node.left)
                 THEN DescendLeftOnly(t, Unwrap(current_node.left), data)
                 ELSE [kind |-> "right", key |-> current_key, failure |-> NoFailure]

Ok == <<"Ok">>
Err(data) == <<"Err", data>>

\* Mutant of TreeInsertOrdered: get_mut is given the root key instead of
\* current_key, so the new node is linked into the root.
TreeInsertOrderedAtRoot(t, data) ==
    LET d == Descend(t, t.root, data)
    IN  IF d.kind = "panic"
        THEN [t |-> t, ret |-> None, failure |-> d.failure]
        ELSE IF d.kind = "found"
        THEN [t |-> t, ret |-> Some(Err(data)), failure |-> NoFailure]
        ELSE
        LET ins == SlotMapInsert(t.storage, TreeNodeNew(data))
            new_node == Unwrap(ins.key)
        IN  [t |-> [t EXCEPT !.storage = [ins.m EXCEPT
                        !.slots[t.root + 1] =
                            IF d.kind = "left"
                            THEN Some([Unwrap(@) EXCEPT !.left = Some(new_node)])
                            ELSE Some([Unwrap(@) EXCEPT !.right = Some(new_node)])]],
             ret |-> Some(Ok), failure |-> NoFailure]

\* Mutant of TreeInsertOrdered: both arms of the match set the left field.
TreeInsertOrderedLeftLink(t, data) ==
    LET d == Descend(t, t.root, data)
    IN  IF d.kind = "panic"
        THEN [t |-> t, ret |-> None, failure |-> d.failure]
        ELSE IF d.kind = "found"
        THEN [t |-> t, ret |-> Some(Err(data)), failure |-> NoFailure]
        ELSE
        LET ins == SlotMapInsert(t.storage, TreeNodeNew(data))
            new_node == Unwrap(ins.key)
        IN  [t |-> [t EXCEPT !.storage = [ins.m EXCEPT
                        !.slots[d.key + 1] =
                            Some([Unwrap(@) EXCEPT !.left = Some(new_node)])]],
             ret |-> Some(Ok), failure |-> NoFailure]

\* Tree::insert_ordered: the tree after the call, the Result returned, and
\* the panic message if the call failed.
TreeInsertOrdered(t, data) ==
    LET d == Descend(t, t.root, data)
    IN  IF d.kind = "panic"
        THEN [t |-> t, ret |-> None, failure |-> d.failure]
        ELSE IF d.kind = "found"
        THEN [t |-> t, ret |-> Some(Err(data)), failure |-> NoFailure]
        ELSE
        LET ins == SlotMapInsert(t.storage, TreeNodeNew(data))
        IN  IF ins.failure # NoFailure
            THEN [t |-> [t EXCEPT !.storage = ins.m], ret |-> None,
                  failure |-> ins.failure]
            ELSE
            LET new_node == Unwrap(ins.key)
                g == SlotMapGet(ins.m, d.key)
            IN  IF g.failure # NoFailure
                THEN [t |-> [t EXCEPT !.storage = ins.m], ret |-> None,
                      failure |-> g.failure]
                ELSE [t |-> [t EXCEPT !.storage = [ins.m EXCEPT
                                 !.slots[d.key + 1] =
                                     IF d.kind = "left"
                                     THEN Some([Unwrap(@) EXCEPT !.left = Some(new_node)])
                                     ELSE Some([Unwrap(@) EXCEPT !.right = Some(new_node)])]],
                      ret |-> Some(Ok), failure |-> NoFailure]

\* Mutant of TreeContains: the descent never takes a right child.
TreeContainsLeftOnly(t, data) ==
    LET d == DescendLeftOnly(t, t.root, data)
    IN  [ret |-> d.kind = "found", failure |-> d.failure]

\* Tree::contains
TreeContains(t, data) ==
    LET d == Descend(t, t.root, data)
    IN  [ret |-> d.kind = "found", failure |-> d.failure]

\* Mutant of SurvivingItems: the slots are walked from the last to the first.
RECURSIVE SurvivingItemsReversed(_, _)
SurvivingItemsReversed(slots, data) ==
    IF slots = <<>> THEN <<>>
    ELSE LET rest == SurvivingItemsReversed(Tail(slots), data)
             slot == Head(slots)
         IN  IF IsSome(slot) /\ Unwrap(slot).data # data
             THEN rest \o <<Unwrap(slot).data>>
             ELSE rest

\* slots.into_iter().filter_map(|slot| slot.item.map(|node| node.data))
\*      .filter(|slot_data| slot_data != data)
RECURSIVE SurvivingItems(_, _)
SurvivingItems(slots, data) ==
    IF slots = <<>> THEN <<>>
    ELSE LET rest == SurvivingItems(Tail(slots), data)
             slot == Head(slots)
         IN  IF IsSome(slot) /\ Unwrap(slot).data # data
             THEN <<Unwrap(slot).data>> \o rest
             ELSE rest

\* for item in items { new_tree.insert_ordered(item).expect(..) }
RECURSIVE InsertAll(_, _)
InsertAll(new_tree, items) ==
    IF items = <<>> THEN [t |-> new_tree, failure |-> NoFailure]
    ELSE LET r == TreeInsertOrdered(new_tree, Head(items))
         IN  IF r.failure # NoFailure
             THEN [t |-> r.t, failure |-> r.failure]
             ELSE IF r.ret # Some(Ok)
             THEN [t |-> r.t, failure |-> "Data should be unique as it is in the tree"]
             ELSE InsertAll(r.t, Tail(items))

\* The elements of a set of values as an ascending sequence.
RECURSIVE Ascending(_)
Ascending(S) ==
    IF S = {} THEN <<>>
    ELSE LET least == CHOOSE x \in S : \A y \in S : x <= y
         IN  <<least>> \o Ascending(S \ {least})

\* Mutant of TreeDelete: no early return for a missing value, and the tree
\* is rebuilt from the surviving values in ascending order.
TreeDeleteSortedRebuild(t, data) ==
    LET c == TreeContains(t, data)
        items == Ascending(Range(SurvivingItems(t.storage.slots, data)))
    IN  IF items = <<>>
        THEN [t |-> t, found |-> c.ret, failure |-> "All trees must have one root"]
        ELSE LET r == InsertAll(TreeNew(Head(items)), Tail(items))
             IN  [t |-> r.t, found |-> c.ret, failure |-> r.failure]

\* Tree::delete: the tree returned, whether the contains check found data,
\* and the panic message if the call failed.
TreeDelete(t, data) ==
    LET c == TreeContains(t, data)
    IN  IF c.failure # NoFailure
        THEN [t |-> t, found |-> c.ret, failure |-> c.failure]
        ELSE IF ~c.ret
        THEN [t |-> t, found |-> FALSE, failure |-> NoFailure]
        ELSE LET items == SurvivingItems(t.storage.slots, data)
             IN  IF items = <<>>
                 THEN [t |-> t, found |-> TRUE,
                       failure |-> "All trees must have one root"]
                 ELSE LET r == InsertAll(TreeNew(Head(items)), Tail(items))
                      IN  [t |-> r.t, found |-> TRUE, failure |-> r.failure]

\* Mutant of inner_out: the In arm prints the node before its left subtree.
RECURSIVE inner_out_InPrintsFirst(_, _, _)
inner_out_InPrintsFirst(t, ordering, node_key) ==
    IF node_key = None THEN <<>>
    ELSE LET node == Unwrap(SlotMapGet(t.storage, Unwrap(node_key)).item)
         IN  IF ordering = "Post"
             THEN inner_out_InPrintsFirst(t, ordering, node.left)
                      \o inner_out_InPrintsFirst(t, ordering, node.right)
                      \o <<node.data>>
             ELSE <<node.data>> \o inner_out_InPrintsFirst(t, ordering, node.left)
                      \o inner_out_InPrintsFirst(t, ordering, node.right)

\* Mutant of inner_out: the Post arm prints the node before its right subtree.
RECURSIVE inner_out_PostPrintsMiddle(_, _, _)
inner_out_PostPrintsMiddle(t, ordering, node_key) ==
    IF node_key = None THEN <<>>
    ELSE LET node == Unwrap(SlotMapGet(t.storage, Unwrap(node_key)).item)
         IN  IF ordering = "Pre"
             THEN <<node.data>> \o inner_out_PostPrintsMiddle(t, ordering, node.left)
                      \o inner_out_PostPrintsMiddle(t, ordering, node.right)
             ELSE inner_out_PostPrintsMiddle(t, ordering, node.left)
                      \o <<node.data>>
                      \o inner_out_PostPrintsMiddle(t, ordering, node.right)

\* Tree::inner_out: the lines printed, in order.
RECURSIVE inner_out(_, _, _)
inner_out(t, ordering, node_key) ==
    IF node_key = None THEN <<>>
    ELSE LET node == Unwrap(SlotMapGet(t.storage, Unwrap(node_key)).item)
         IN  CASE ordering = "Pre" ->
                    <<node.data>> \o inner_out(t, ordering, node.left)
                                  \o inner_out(t, ordering, node.right)
               [] ordering = "In" ->
                    inner_out(t, ordering, node.left) \o <<node.data>>
                                  \o inner_out(t, ordering, node.right)
               [] ordering = "Post" ->
                    inner_out(t, ordering, node.left)
                                  \o inner_out(t, ordering, node.right) \o <<node.data>>

\* Tree::out_order, without the start and end marker lines.
out_order(t, ordering) == inner_out(t, ordering, Some(t.root))

\* Mutant of BreadthLoop: the right child is pushed only when there is no
\* left child (an else-if in place of the second if).
RECURSIVE BreadthLoopElseIf(_, _, _)
BreadthLoopElseIf(t, queue, printed) ==
    IF queue = <<>> THEN printed
    ELSE LET current_key == Head(queue)
             current_node == Unwrap(SlotMapGet(t.storage, current_key).item)
             q1 == IF IsSome(current_node.left)
                   THEN Append(Tail(queue), Unwrap(current_node.left))
                   ELSE IF IsSome(current_node.right)
                   THEN Append(Tail(queue), Unwrap(current_node.right))
                   ELSE Tail(queue)
         IN  BreadthLoopElseIf(t, q1, Append(printed, current_node.data))

\* The loop of Tree::out_breadth: queue is the VecDeque of keys, printed the
\* lines printed so far.
RECURSIVE BreadthLoop(_, _, _)
BreadthLoop(t, queue, printed) ==
    IF queue = <<>> THEN printed
    ELSE LET current_key == Head(queue)
             current_node == Unwrap(SlotMapGet(t.storage, current_key).item)
             q1 == IF IsSome(current_node.left)
                   THEN Append(Tail(queue), Unwrap(current_node.left))
                   ELSE Tail(queue)
             q2 == IF IsSome(current_node.right)
                   THEN Append(q1, Unwrap(current_node.right))
                   ELSE q1
         IN  BreadthLoop(t, q2, Append(printed, current_node.data))

\* Tree::out_breadth, without the start and end marker lines.
out_breadth(t) == BreadthLoop(t, <<t.root>>, <<>>)

\* ------------------------------------------------------------------------
\* State
\* ------------------------------------------------------------------------

VARIABLES
    tree,             \* the Tree of the driver: [storage, root]
    inserted,         \* the values given to Tree::new and insert_ordered and
                      \* not deleted since
    accepted,         \* the values the current arena took, in the order of
                      \* the calls of Tree::new and insert_ordered that
                      \* returned Ok on it
    pristine,         \* TRUE until the first delete of a value that is present
    map,              \* a SlotMap used directly by a caller
    held,             \* the <<key, item>> pairs insert returned for items
                      \* the caller has not removed since
    next_item,        \* the item the caller inserts next (all are distinct)
    ops,              \* number of SlotMap calls made since the initial fill
    phase,            \* "fill": only inserts so far; "drain": inserts, then
                      \* removes; "refill": then one insert; "mixed": later
    overflow_checks,  \* the build: TRUE panics on overflow, FALSE wraps
    last,             \* the last call, its arguments and what it returned
    failure           \* NoFailure, or the message of the panic that ended the run

vars == <<tree, inserted, accepted, pristine, map, held, next_item, ops, phase, overflow_checks, last, failure>>

Values == 1 .. MaxVal
Orderings == {"Pre", "In", "Post"}

NoCall == [op |-> "none"]

\* ------------------------------------------------------------------------
\* The Tree and its callers (main, user_tree)
\* ------------------------------------------------------------------------

mapVars == <<map, held, next_item, ops, phase, overflow_checks>>

\* let mut tree = Tree::new(root)
Init ==
    /\ \E root \in Values :
          /\ tree = TreeNew(root)
          /\ inserted = {root}
          /\ accepted = <<root>>
    /\ pristine = TRUE
    /\ map = SlotMapNew
    /\ held = {}
    /\ next_item = 1
    /\ ops = 0
    /\ phase = "fill"
    /\ overflow_checks = TRUE
    /\ last = NoCall
    /\ failure = NoFailure

\* tree.insert_ordered(data)
InsertOrdered(data) ==
    /\ failure = NoFailure
    /\ Len(tree.storage.slots) < MaxNodes
    /\ LET r == TreeInsertOrdered(tree, data)
       IN  /\ tree' = r.t
           /\ failure' = r.failure
           /\ last' = [op |-> "insert_ordered", data |-> data, ret |-> r.ret]
           /\ accepted' = IF r.ret = Some(Ok) THEN Append(accepted, data)
                          ELSE accepted
    /\ inserted' = inserted \cup {data}
    /\ UNCHANGED <<pristine, mapVars>>

\* tree.contains(&data)
Contains(data) ==
    /\ failure = NoFailure
    /\ LET r == TreeContains(tree, data)
       IN  /\ failure' = r.failure
           /\ last' = [op |-> "contains", data |-> data, answer |-> r.ret]
    /\ UNCHANGED <<tree, inserted, accepted, pristine, mapVars>>

\* tree = tree.delete(&data); last.found: the tree contained data
Delete(data) ==
    /\ failure = NoFailure
    /\ LET r == TreeDelete(tree, data)
       IN  /\ tree' = r.t
           /\ failure' = r.failure
           /\ last' = [op |-> "delete", data |-> data, found |-> r.found]
           \* a rebuild hands the surviving items to a new arena
           /\ accepted' = IF r.found /\ r.failure = NoFailure
                          THEN SurvivingItems(tree.storage.slots, data)
                          ELSE accepted
    /\ inserted' = inserted \ {data}
    /\ pristine' = (pristine /\ data \notin inserted)
    /\ UNCHANGED mapVars

\* tree.out_order(ordering): last.printed is the lines printed
OutOrder(ordering) ==
    /\ failure = NoFailure
    /\ last' = [op |-> "out_order", ordering |-> ordering,
                printed |-> out_order(tree, ordering)]
    /\ UNCHANGED <<tree, inserted, accepted, pristine, mapVars, failure>>

\* tree.out_breadth(): last.printed is the lines printed
OutBreadth ==
    /\ failure = NoFailure
    /\ last' = [op |-> "out_breadth", printed |-> out_breadth(tree)]
    /\ UNCHANGED <<tree, inserted, accepted, pristine, mapVars, failure>>

Next ==
    \/ \E data \in Values : InsertOrdered(data)
    \/ \E data \in Values : Contains(data)
    \/ \E data \in Values : Delete(data)
    \/ \E ordering \in Orderings : OutOrder(ordering)
    \/ OutBreadth

Spec == Init /\ [][Next]_vars

\* ------------------------------------------------------------------------
\* A SlotMap used directly
\* ------------------------------------------------------------------------

\* The map after SlotMap::new() and n calls of insert, with items 1..n.
RECURSIVE Filled(_)
Filled(n) ==
    IF n = 0 THEN SlotMapNew ELSE SlotMapInsert(Filled(n - 1), n).m

\* The fills the runs start from: an empty map, and one whose word 0 is full.
InitLens == {0, BITS}

\* The keys remove is called with: the first keys of the first words.
RemoveKeys ==
    {(chunk * BITS) + offset : chunk \in 0 .. (MaxChunk - 1), offset \in 0 .. (NearKeys - 1)}

Occupied(m) == {i \in 0 .. (Len(m.slots) - 1) : m.slots[i + 1] # None}
Empty(m) == {i \in 0 .. (Len(m.slots) - 1) : m.slots[i + 1] = None}

\* The maps the runs start from, by the length of the fill.
InitialMaps == [n \in InitLens |-> Filled(n)]

\* let mut map = SlotMap::new(); then n calls of map.insert
InitMap ==
    /\ \E n \in InitLens :
          /\ map = InitialMaps[n]
          /\ held = {<<i - 1, i>> : i \in 1 .. n}
          /\ next_item = n + 1
    /\ ops = 0
    /\ phase = "fill"
    /\ overflow_checks \in BOOLEAN
    /\ tree = TreeNew(1)
    /\ inserted = {1}
    /\ accepted = <<1>>
    /\ pristine = TRUE
    /\ last = NoCall
    /\ failure = NoFailure

\* map.insert(next_item)
MapInsert ==
    /\ failure = NoFailure
    /\ ops < MaxOps
    /\ LET r == SlotMapInsert(map, next_item)
       IN  /\ map' = r.m
           /\ failure' = r.failure
           /\ last' = [op |-> "insert", item |-> next_item, ret |-> r.key]
           /\ held' = IF r.failure = NoFailure
                      THEN held \cup {<<Unwrap(r.key), next_item>>}
                      ELSE held
    /\ next_item' = next_item + 1
    /\ ops' = ops + 1
    /\ phase' = IF phase = "fill" THEN "fill"
                ELSE IF phase = "drain" THEN "refill" ELSE "mixed"
    /\ UNCHANGED <<tree, inserted, accepted, pristine, overflow_checks>>

\* map.remove(slot_key); last.valid: slot_key names an occupied slot
MapRemove(slot_key) ==
    /\ failure = NoFailure
    /\ ops < MaxOps
    /\ LET r == SlotMapRemove(map, slot_key, overflow_checks)
       IN  /\ map' = r.m
           /\ failure' = r.failure
           /\ last' = [op |-> "remove", slot_key |-> slot_key, removed |-> r.item,
                       valid |-> slot_key \in Occupied(map)]
    /\ held' = {p \in held : p[1] # slot_key}
    /\ ops' = ops + 1
    /\ phase' = IF phase \in {"fill", "drain"} THEN "drain" ELSE "mixed"
    /\ UNCHANGED <<tree, inserted, accepted, pristine, next_item, overflow_checks>>

NextMap ==
    \/ MapInsert
    \/ \E slot_key \in RemoveKeys : MapRemove(slot_key)

SpecMap == InitMap /\ [][NextMap]_vars

\* ------------------------------------------------------------------------
\* Vocabulary of the properties
\* ------------------------------------------------------------------------

\* The node stored under key k.
Node(t, k) == Unwrap(t.storage.slots[k + 1])

\* The values stored in the arena of t.
TreeValues(t) == {Node(t, k).data : k \in Occupied(t.storage)}

\* The keys of the subtree under an Option<SlotKey>.
RECURSIVE SubtreeKeys(_, _)
SubtreeKeys(t, node_key) ==
    IF node_key = None THEN {}
    ELSE LET n == Node(t, Unwrap(node_key))
         IN  {Unwrap(node_key)} \cup SubtreeKeys(t, n.left) \cup SubtreeKeys(t, n.right)

ReachableKeys(t) == SubtreeKeys(t, Some(t.root))

\* The nodes a node links to.
Children(t, k) ==
    {Unwrap(c) : c \in {Node(t, k).left, Node(t, k).right} \ {None}}

StrictlyAscending(seq) ==
    \A i \in 1 .. (Len(seq) - 1) : seq[i] < seq[i + 1]

\* The places of v in seq.
Places(seq, v) == {i \in 1 .. Len(seq) : seq[i] = v}

\* v is printed, and every print of v comes before every print of w.
PrintedBefore(seq, v, w) ==
    /\ Places(seq, v) # {}
    /\ Places(seq, w) # {}
    /\ \A i \in Places(seq, v) : \A j \in Places(seq, w) : i < j

\* ------------------------------------------------------------------------
\* C1
\* ------------------------------------------------------------------------

\* C1: in a tree built by Tree::new and insert_ordered alone, contains(v)
\* is true exactly for the values that were given to Tree::new and
\* insert_ordered, and contains does not fail.
C1_ContainsExactlyInserted ==
    (pristine /\ failure = NoFailure) =>
        \A v \in Values :
            /\ TreeContains(tree, v).failure = NoFailure
            /\ TreeContains(tree, v).ret <=> (v \in inserted)

\* A contains call that answered false on a tree of three inserted values.
C1_Witness ==
    /\ pristine
    /\ Cardinality(inserted) >= 3
    /\ last.op = "contains"
    /\ ~last.answer
    /\ \E v \in inserted : v < last.data
    /\ \E v \in inserted : v > last.data

\* ------------------------------------------------------------------------
\* C2
\* ------------------------------------------------------------------------

\* C2: for every node reachable from root, every value in its left subtree
\* is strictly less and every value in its right subtree strictly greater
\* than its own, and no value is stored in two reachable nodes.
C2_BstOrdering ==
    failure = NoFailure =>
        /\ \A k \in ReachableKeys(tree) :
              /\ \A j \in SubtreeKeys(tree, Node(tree, k).left) :
                    Node(tree, j).data < Node(tree, k).data
              /\ \A j \in SubtreeKeys(tree, Node(tree, k).right) :
                    Node(tree, j).data > Node(tree, k).data
        /\ \A j, k \in ReachableKeys(tree) :
              Node(tree, j).data = Node(tree, k).data => j = k

\* A rebuilt tree whose root has both children and a grandchild.
C2_Witness ==
    /\ failure = NoFailure
    /\ ~pristine
    /\ Cardinality(ReachableKeys(tree)) >= 4
    /\ IsSome(Node(tree, tree.root).left)
    /\ IsSome(Node(tree, tree.root).right)

\* ------------------------------------------------------------------------
\* C3
\* ------------------------------------------------------------------------

\* C3: what out_order(TreeOrdering::In) prints is strictly ascending and is
\* made of the values of the tree.
C3_InOrderAscending ==
    (last.op = "out_order" /\ last.ordering = "In") =>
        /\ StrictlyAscending(last.printed)
        /\ Range(last.printed) = TreeValues(tree)

\* An in-order print of three or more values, after a delete, of a tree
\* whose root is neither its least nor its greatest value.
C3_Witness ==
    /\ last.op = "out_order"
    /\ last.ordering = "In"
    /\ Len(last.printed) >= 3
    /\ ~pristine
    /\ IsSome(Node(tree, tree.root).left)
    /\ IsSome(Node(tree, tree.root).right)

\* ------------------------------------------------------------------------
\* C4
\* ------------------------------------------------------------------------

\* C4: insert_ordered(v) on a tree that holds v returns Err(v), does not
\* fail, and leaves the whole Tree (root, slots, item_count, bitmap) as it
\* was, so contains answers as before for every value.
C4_DuplicateRejected ==
    [][\A v \in Values :
          (InsertOrdered(v) /\ v \in TreeValues(tree)) =>
              /\ last'.ret = Some(Err(v))
              /\ failure' = NoFailure
              /\ tree' = tree
              /\ \A w \in Values : TreeContains(tree', w) = TreeContains(tree, w)]_vars

\* A rejected insert of a value stored below the root.
C4_Witness ==
    /\ last.op = "insert_ordered"
    /\ last.ret = Some(Err(last.data))
    /\ last.data # Node(tree, tree.root).data
    /\ Len(tree.storage.slots) >= 3

\* ------------------------------------------------------------------------
\* C5
\* ------------------------------------------------------------------------

\* C5: delete(v) of a value v the tree holds returns a tree whose values
\* are the old values without v; contains(v) is then false and contains(w)
\* true for every other old value w.
C5_DeletePresent ==
    [][\A v \in Values :
          (Delete(v) /\ v \in TreeValues(tree)) =>
              /\ failure' = NoFailure
              /\ TreeValues(tree') = TreeValues(tree) \ {v}
              /\ ~TreeContains(tree', v).ret
              /\ \A w \in TreeValues(tree) \ {v} : TreeContains(tree', w).ret]_vars

\* ------------------------------------------------------------------------
\* C6
\* ------------------------------------------------------------------------

\* C6: delete(v) of a value v the tree does not hold returns the tree as it
\* was: the same root key, slots, item_count and bitmap.
C6_DeleteAbsent ==
    [][\A v \in Values :
          (Delete(v) /\ v \notin TreeValues(tree)) =>
              /\ tree' = tree
              /\ failure' = NoFailure]_vars

\* A delete of an absent value on a tree whose slot order is not ascending.
C6_Witness ==
    /\ last.op = "delete"
    /\ ~last.found
    /\ failure = NoFailure
    /\ Len(tree.storage.slots) >= 3
    /\ \E i \in 1 .. (Len(tree.storage.slots) - 1) :
          Node(tree, i - 1).data > Node(tree, i).data

\* ------------------------------------------------------------------------
\* C7
\* ------------------------------------------------------------------------

\* C7: out_breadth prints every node after its parent, out_order(Pre) prints
\* every node before each of its children, out_order(Post) prints every
\* node after each of its children.
C7_TraversalOrders ==
    \A k \in ReachableKeys(tree) : \A c \in Children(tree, k) :
        /\ last.op = "out_breadth" =>
              PrintedBefore(last.printed, Node(tree, k).data, Node(tree, c).data)
        /\ (last.op = "out_order" /\ last.ordering = "Pre") =>
              PrintedBefore(last.printed, Node(tree, k).data, Node(tree, c).data)
        /\ (last.op = "out_order" /\ last.ordering = "Post") =>
              PrintedBefore(last.printed, Node(tree, c).data, Node(tree, k).data)

\* A post-order print of a tree whose root has two children and a grandchild.
C7_Witness ==
    /\ last.op = "out_order"
    /\ last.ordering = "Post"
    /\ Len(last.printed) >= 4
    /\ IsSome(Node(tree, tree.root).left)
    /\ IsSome(Node(tree, tree.root).right)

\* ------------------------------------------------------------------------
\* C8
\* ------------------------------------------------------------------------

\* C8: after any sequence of insert calls and remove calls on keys of
\* occupied slots, item_count is the number of slots whose item is Some.
\* (A remove of any other key panics, so failure = NoFailure leaves the
\* runs the claim is about.)
C8_ItemCountIsOccupied ==
    failure = NoFailure => map.item_count = Cardinality(Occupied(map))

\* ------------------------------------------------------------------------
\* C9
\* ------------------------------------------------------------------------

\* C9: n inserts on a new map, then removes of k of the returned keys in any
\* order: no call fails, get returns the item inserted under each key that
\* was not removed and fails for each key that was; the next insert returns
\* one of the freed indices and does not lengthen slots.
C9_FillDrainRefill ==
    (phase \in {"drain", "refill"} /\ (last.op = "remove" => last.valid)) =>
        /\ failure = NoFailure
        /\ phase = "drain" =>
              LET n == next_item - 1
                  kept == {p[1] : p \in held}
              IN  /\ \A p \in held : SlotMapGet(map, p[1]) =
                                        [item |-> Some(p[2]), failure |-> NoFailure]
                  /\ \A key \in (0 .. (n - 1)) \ kept :
                        SlotMapGet(map, key).failure # NoFailure
        /\ phase = "refill" =>
              LET n == next_item - 2
                  kept == {p[1] : p \in {q \in held : q[2] <= n}}
              IN  /\ last.ret # None
                  /\ Unwrap(last.ret) \in (0 .. (n - 1)) \ kept
                  /\ Len(map.slots) = n

\* ------------------------------------------------------------------------
\* C10
\* ------------------------------------------------------------------------

Min(S) == CHOOSE x \in S : \A y \in S : x <= y

\* C10: insert(item) does not fail, stores the item in the lowest-indexed
\* empty slot if a slot is empty and otherwise in a new slot at index
\* slots.len(), changes no other slot, returns the key of that slot and
\* adds one to item_count.
C10_InsertLowestEmpty ==
    [][MapInsert =>
          LET target == IF Empty(map) # {} THEN Min(Empty(map)) ELSE Len(map.slots)
          IN  /\ failure' = NoFailure
              /\ last'.ret = Some(target)
              /\ map'.slots = IF target < Len(map.slots)
                              THEN [map.slots EXCEPT ![target + 1] = Some(next_item)]
                              ELSE Append(map.slots, Some(next_item))
              /\ map'.item_count = map.item_count + 1]_vars

\* ------------------------------------------------------------------------
\* C11
\* ------------------------------------------------------------------------

\* C11: no call shortens slots, and an insert made while some slot is empty
\* does not lengthen it.
C11_GrowsOnlyWhenFull ==
    [][/\ Len(map'.slots) >= Len(map.slots)
       /\ (MapInsert /\ Empty(map) # {}) =>
              Len(map'.slots) = Len(map.slots)]_vars

\* ------------------------------------------------------------------------
\* C12
\* ------------------------------------------------------------------------

\* C12: get fails exactly for a key that is out of range or names an empty
\* slot and otherwise returns the slot's item; remove fails for such a key
\* and otherwise returns the slot's item and leaves the slot empty.
C12_FailExactlyOnBadKey ==
    [][/\ \A key \in RemoveKeys :
             LET bad == key >= Len(map.slots) \/ map.slots[key + 1] = None
                 g == SlotMapGet(map, key)
             IN  IF bad THEN g.failure # NoFailure
                 ELSE g = [item |-> map.slots[key + 1], failure |-> NoFailure]
       /\ \A key \in RemoveKeys :
             MapRemove(key) =>
                 IF key >= Len(map.slots) \/ map.slots[key + 1] = None
                 THEN failure' # NoFailure
                 ELSE /\ failure' = NoFailure
                      /\ last'.removed = map.slots[key + 1]
                      /\ map'.slots[key + 1] = None]_vars

\* ------------------------------------------------------------------------
\* C13
\* ------------------------------------------------------------------------

\* The values of the occupied slots of t other than v, in slot index order.
SurvivorsInSlotOrder(t, v) ==
    LET kept == SelectSeq(t.storage.slots,
                          LAMBDA slot : slot # None /\ Unwrap(slot).data # v)
    IN  [i \in 1 .. Len(kept) |-> Unwrap(kept[i]).data]

\* Tree::new(items[1]) followed by insert_ordered of items[2], .., items[n].
RECURSIVE BuiltFrom(_, _)
BuiltFrom(items, n) ==
    IF n = 1 THEN TreeNew(items[1])
    ELSE TreeInsertOrdered(BuiltFrom(items, n - 1), items[n]).t

\* C13: delete(v) of a stored value with at least one other value stored
\* returns, without failing, the tree that Tree::new(first survivor) and
\* insert_ordered of the other survivors build in a new arena, the
\* survivors taken in slot index order of the old arena.
C13_DeleteRebuildsInSlotOrder ==
    [][\A v \in Values :
          LET survivors == SurvivorsInSlotOrder(tree, v)
          IN  (Delete(v) /\ v \in TreeValues(tree) /\ survivors # <<>>) =>
                  /\ failure' = NoFailure
                  /\ tree' = BuiltFrom(survivors, Len(survivors))
                  /\ Node(tree', tree'.root).data = survivors[1]]_vars

\* A tree of three or more nodes returned by a delete that found its value,
\* whose slot order is not the ascending order.
C13_Witness ==
    /\ last.op = "delete"
    /\ last.found
    /\ failure = NoFailure
    /\ Len(tree.storage.slots) >= 3
    /\ \E i \in 1 .. (Len(tree.storage.slots) - 1) :
          Node(tree, i - 1).data > Node(tree, i).data

\* ------------------------------------------------------------------------
\* C14
\* ------------------------------------------------------------------------

\* The fields of the old nodes that differ between t and u, as
\* <<key, "data" | "left" | "right">> pairs.
ChangedFields(t, u) ==
    {<<k, "data">> : k \in {j \in Occupied(t.storage) :
                               Node(u, j).data # Node(t, j).data}}
    \cup {<<k, "left">> : k \in {j \in Occupied(t.storage) :
                                    Node(u, j).left # Node(t, j).left}}
    \cup {<<k, "right">> : k \in {j \in Occupied(t.storage) :
                                     Node(u, j).right # Node(t, j).right}}

\* C14: an insert_ordered(v) that returns Ok keeps the root key and every
\* old slot occupied, adds one slot holding the leaf v, and changes exactly
\* one field of the old nodes: a child link that was None and now names the
\* new node, the left one if v is less than that node's value and the right
\* one if it is greater.
C14_InsertLinksOneLeaf ==
    [][\A v \in Values :
          (InsertOrdered(v) /\ last'.ret = Some(Ok)) =>
              LET new_key == Len(tree.storage.slots)
              IN  /\ failure' = NoFailure
                  /\ tree'.root = tree.root
                  /\ Len(tree'.storage.slots) = new_key + 1
                  /\ Occupied(tree'.storage) = Occupied(tree.storage) \cup {new_key}
                  /\ Node(tree', new_key) = [data |-> v, left |-> None, right |-> None]
                  /\ \E k \in Occupied(tree.storage) :
                        \/ /\ v < Node(tree, k).data
                           /\ ChangedFields(tree, tree') = {<<k, "left">>}
                           /\ Node(tree, k).left = None
                           /\ Node(tree', k).left = Some(new_key)
                        \/ /\ v > Node(tree, k).data
                           /\ ChangedFields(tree, tree') = {<<k, "right">>}
                           /\ Node(tree, k).right = None
                           /\ Node(tree', k).right = Some(new_key)]_vars

\* An accepted insert that linked its leaf two levels below the root.
C14_Witness ==
    /\ last.op = "insert_ordered"
    /\ last.ret = Some(Ok)
    /\ failure = NoFailure
    /\ \E k \in Children(tree, tree.root) : \E c \in Children(tree, k) :
          /\ c = Len(tree.storage.slots) - 1
          /\ Node(tree, c).data = last.data

\* ------------------------------------------------------------------------
\* C15
\* ------------------------------------------------------------------------

\* seq holds every element of S once and nothing else.
EachOnce(seq, S) ==
    /\ Len(seq) = Cardinality(S)
    /\ Range(seq) = S

\* C15: a call of out_order (any ordering) or out_breadth returns without
\* failing, leaves the tree as it was, prints every value of the tree
\* exactly once, and prints what the call before it printed when that was
\* the same traversal.
C15_TraversalsPrintEachOnce ==
    [][/\ \A ordering \in Orderings :
             OutOrder(ordering) =>
                 /\ failure' = NoFailure
                 /\ tree' = tree
                 /\ EachOnce(last'.printed, TreeValues(tree))
                 /\ (last.op = "out_order" /\ last.ordering = ordering) =>
                        last'.printed = last.printed
       /\ OutBreadth =>
                 /\ failure' = NoFailure
                 /\ tree' = tree
                 /\ EachOnce(last'.printed, TreeValues(tree))
                 /\ last.op = "out_breadth" => last'.printed = last.printed]_vars

\* A breadth-first print of a tree whose root has two children and a
\* grandchild.
C15_Witness ==
    /\ last.op = "out_breadth"
    /\ Len(last.printed) >= 4
    /\ IsSome(Node(tree, tree.root).left)
    /\ IsSome(Node(tree, tree.root).right)

\* ------------------------------------------------------------------------
\* C16
\* ------------------------------------------------------------------------

\* The word of empty_indexes that stands for index i exists.
Covered(m, i) == (i \div BITS) < Len(m.empty_indexes)

\* The bit that stands for index i, most significant bit = lowest index.
BitOf(m, i) == m.empty_indexes[(i \div BITS) + 1][BitOffset(i)]

\* C16: while no call has failed, the bit of every covered slot index is 0
\* exactly when the slot is empty, every empty slot is covered, and
\* find_free_slot returns nothing but the index of an empty slot.
C16_BitmapAgreesWithSlots ==
    failure = NoFailure =>
        /\ \A i \in 0 .. (Len(map.slots) - 1) :
              Covered(map, i) => (BitOf(map, i) = 0 <=> map.slots[i + 1] = None)
        /\ \A i \in Empty(map) : Covered(map, i)
        /\ find_free_slot(map) # None =>
              Unwrap(find_free_slot(map)) \in Empty(map)

\* ------------------------------------------------------------------------
\* C17
\* ------------------------------------------------------------------------

\* C17: remove of an in-range occupied key does not fail, whatever words
\* earlier removes appended: empty_indexes ends with the longer of its old
\* length and slot_chunk + 1, and among the words it had before only the
\* bit of the removed index differs.
C17_RemoveNeverUnderflows ==
    [][\A key \in RemoveKeys :
          (/\ MapRemove(key)
           /\ key < Len(map.slots)
           /\ map.slots[key + 1] # None) =>
              LET slot_chunk == key \div BITS
                  old == map.empty_indexes
                  new == map'.empty_indexes
              IN  /\ failure' = NoFailure
                  /\ Len(new) = Max({Len(old), slot_chunk + 1})
                  /\ \A c \in 1 .. Len(old) : \A b \in BitNumbers :
                        new[c][b] # old[c][b] =>
                            (c = slot_chunk + 1 /\ b = BitOffset(key))]_vars

\* ------------------------------------------------------------------------
\* C18
\* ------------------------------------------------------------------------

\* C18: a remove whose key is out of range or names an empty slot fails,
\* and when it has failed item_count and empty_indexes are what they were
\* before the call.
C18_FailedRemoveChangesNothing ==
    [][\A key \in RemoveKeys :
          (/\ MapRemove(key)
           /\ (key >= Len(map.slots) \/ map.slots[key + 1] = None)) =>
              /\ failure' # NoFailure
              /\ map'.item_count = map.item_count
              /\ map'.empty_indexes = map.empty_indexes]_vars

\* ------------------------------------------------------------------------
\* C19
\* ------------------------------------------------------------------------

\* C19: while no call has failed, every key that insert returned and that
\* has not been removed since reads back, through get, the item inserted
\* under it, and no two such items were given the same key.
C19_InsertNeverOverwrites ==
    failure = NoFailure =>
        /\ \A p \in held : SlotMapGet(map, p[1]) =
                               [item |-> Some(p[2]), failure |-> NoFailure]
        /\ \A p, q \in held : p[1] = q[1] => p = q

\* ------------------------------------------------------------------------
\* C20
\* ------------------------------------------------------------------------

\* The <<parent, side>> links that name key k.
LinksTo(t, k) ==
    {link \in Occupied(t.storage) \X {"left", "right"} :
        IF link[2] = "left" THEN Node(t, link[1]).left = Some(k)
                            ELSE Node(t, link[1]).right = Some(k)}

\* C20: the arena of every reachable tree is dense and tree-shaped: no slot
\* is empty, item_count, the number of slots and the number of values are
\* equal, empty_indexes has no word, the root key is 0, slot i holds the
\* i-th value the arena accepted, every child key names an occupied slot of
\* a larger index than its parent, every slot but the root is the child of
\* exactly one node, and every slot is reachable from the root.
C20_ArenaDenseTreeShaped ==
    LET s == tree.storage
        n == Len(s.slots)
    IN  /\ Empty(s) = {}
        /\ s.item_count = n
        /\ n = Cardinality(TreeValues(tree))
        /\ s.empty_indexes = <<>>
        /\ tree.root = 0
        /\ n = Len(accepted)
        /\ \A i \in 0 .. (n - 1) : Node(tree, i).data = accepted[i + 1]
        /\ \A k \in 0 .. (n - 1) : \A c \in Children(tree, k) :
              c \in Occupied(s) /\ c > k
        /\ \A k \in 1 .. (n - 1) : Cardinality(LinksTo(tree, k)) = 1
        /\ LinksTo(tree, tree.root) = {}
        /\ ReachableKeys(tree) = 0 .. (n - 1)

\* A full arena rebuilt by a delete and then grown again: its slot order is
\* not the ascending order and its root has a grandchild.
C20_Witness ==
    /\ failure = NoFailure
    /\ ~pristine
    /\ last.op = "insert_ordered"
    /\ last.ret = Some(Ok)
    /\ Len(tree.storage.slots) = MaxNodes
    /\ ~StrictlyAscending(accepted)
    /\ \E c \in Children(tree, tree.root) : Children(tree, c) # {}

=============================================================================
